---------------------------- MODULE Spec2Model ----------------------------
(***************************************************************************)
(* Model of src/Mod/Fem/FemGmshTools.py (class FemGmshTools): the pipeline   *)
(* that turns a mesh configuration into a Gmsh script, runs Gmsh and loads   *)
(* the mesh.  One action per method of the class; create_mesh and            *)
(* export_mesh are the two callers that sequence the methods.                *)
(*                                                                           *)
(* Conventions                                                               *)
(*  - Python strings that the code takes apart (element names such as        *)
(*    'Face1') are sequences of one-character strings, see Chars.            *)
(*  - A Python dict is a sequence of <<key, value>> pairs in insertion       *)
(*    order; a Python None / empty string is "".                             *)
(*  - Lengths are integers (the unit is arbitrary); the comparisons with     *)
(*    0.8 and 1.6 are done on integers scaled by 10.                         *)
(*  - Comment lines written to the script are not modelled, statements are.  *)
(***************************************************************************)
EXTENDS Integers, Sequences, FiniteSets, TLC

(***************************************************************************)
(* Bounds of the model.                                                      *)
(***************************************************************************)
\* number of runs (create_mesh / export_mesh calls) on one tool object
MaxRuns == 2

(***************************************************************************)
(* Strings.                                                                  *)
(***************************************************************************)
\* the characters of the strings the code slices or strips
Chars(s) ==
    CASE s = "Solid1"  -> <<"S", "o", "l", "i", "d", "1">>
      [] s = "Face1"   -> <<"F", "a", "c", "e", "1">>
      [] s = "Face2"   -> <<"F", "a", "c", "e", "2">>
      [] s = "Edge1"   -> <<"E", "d", "g", "e", "1">>
      [] s = "Edge2"   -> <<"E", "d", "g", "e", "2">>
      [] s = "Vertex1" -> <<"V", "e", "r", "t", "e", "x", "1">>
      [] s = "Solid"   -> <<"S", "o", "l", "i", "d">>
      [] s = "Face"    -> <<"F", "a", "c", "e">>
      [] s = "Edge"    -> <<"E", "d", "g", "e">>
      [] s = "Vertex"  -> <<"V", "e", "r", "t", "e", "x">>
      [] s = ", "      -> <<",", " ">>
      [] OTHER         -> <<>>

CharSet(s) == {Chars(s)[i] : i \in 1..Len(Chars(s))}

\* str.startswith
startswith(s, prefix) ==
    /\ Len(s) >= Len(prefix)
    /\ SubSeq(s, 1, Len(prefix)) = prefix

\* str.lstrip(chars): drop every leading character that is in the set chars
RECURSIVE lstrip(_, _)
lstrip(s, chars) ==
    IF s # <<>> /\ Head(s) \in chars THEN lstrip(Tail(s), chars) ELSE s

\* str.rstrip(chars): drop every trailing character that is in the set chars
RECURSIVE rstrip(_, _)
rstrip(s, chars) ==
    IF s # <<>> /\ s[Len(s)] \in chars
    THEN rstrip(SubSeq(s, 1, Len(s) - 1), chars)
    ELSE s

\* s[n:] of a Python string
slice_from(s, n) == SubSeq(s, n + 1, Len(s))

(***************************************************************************)
(* Python dicts as sequences of <<key, value>> pairs.                        *)
(***************************************************************************)
dict_has(d, k) == \E i \in 1..Len(d) : d[i][1] = k

dict_get(d, k) == d[CHOOSE i \in 1..Len(d) : d[i][1] = k][2]

dict_keys(d) == [i \in 1..Len(d) |-> d[i][1]]

\* x in list
list_has(l, x) == \E i \in 1..Len(l) : l[i] = x

(***************************************************************************)
(* Class attributes, lines 40-43.                                            *)
(***************************************************************************)
supported_mesh_output_formats ==
    << <<"Gmsh MSH", 1>>, <<"I-Deas universal", 2>>, <<"Automatic", 10>>,
       <<"STL surface", 27>>, <<"INRIA medit", 30>>, <<"CGNS", 32>>,
       <<"Salome mesh", 33>>, <<"Abaqus INP", 39>>, <<"Ploy surface", 42>> >>

output_format_suffix ==
    << <<"Gmsh MSH", ".msh">>, <<"I-Deas universal", ".unv">>,
       <<"Automatic", ".msh">>, <<"STL surface", ".stl">>,
       <<"INRIA medit", ".mesh">>, <<"CGNS", ".cgns">>,
       <<"Salome mesh", "med">>, <<"Abaqus INP", ".inp">>,
       <<"Ploy surface", ".ply2">> >>


(***************************************************************************)
(* State.                                                                    *)
(***************************************************************************)
VARIABLES
    mesh_obj,   \* the host's mesh configuration object (self.mesh_obj)
    part_obj,   \* the part to mesh (self.part_obj = mesh_obj.Part)
    analysis,   \* self.analysis: group source of the analysis, or absent
    env,        \* preferences and platform the tool reads at run time
    self,       \* the attributes of the FemGmshTools object
    geo,        \* the statements of the script file shape2mesh.geo
    fs,         \* the temporary mesh output file: does it exist
    console,    \* diagnostics printed during the current run
    pc,         \* the method the current caller executes next
    run,        \* the current (or last) call of create_mesh / export_mesh
    runs        \* number of calls started so far

vars == <<mesh_obj, part_obj, analysis, env, self, geo, fs, console, pc, run, runs>>

(***************************************************************************)
(* __init__, lines 44-120.                                                   *)
(***************************************************************************)
\* stands for 1e+22 (line 59): larger than 1.6 times any thickness of the model
ClmaxDefault == 100000000

\* stands for 1e-08 (line 67), the unit of GeometryTolerance in the model
GeotolDefault == 1

\* lines 56-59
init_clmax(m) ==
    IF m.CharacteristicLengthMax = 0 THEN ClmaxDefault ELSE m.CharacteristicLengthMax

\* lines 64-67
init_geotol(m) ==
    IF m.GeometryTolerance = 0 THEN GeotolDefault ELSE m.GeometryTolerance

\* lines 69-77: an unknown order is reported and kept as it is
init_order(m) ==
    IF m.ElementOrder = "1st" THEN "1"
    ELSE IF m.ElementOrder = "2nd" THEN "2"
    ELSE m.ElementOrder

\* lines 82-98
init_algorithm2D(m) ==
    LET algo2D == m.Algorithm2D IN
    CASE algo2D = "Automatic" -> "2"
      [] algo2D = "MeshAdapt" -> "1"
      [] algo2D = "Delaunay"  -> "5"
      [] algo2D = "Frontal"   -> "6"
      [] algo2D = "BAMG"      -> "7"
      [] algo2D = "DelQuad"   -> "8"
      [] OTHER                -> "2"

\* lines 100-120: algo3D is read from mesh_obj.Algorithm2D (line 102)
init_algorithm3D(m) ==
    LET algo3D == m.Algorithm2D IN
    CASE algo3D = "Automatic"        -> "1"
      [] algo3D = "Delaunay"         -> "1"
      [] algo3D = "New Delaunay"     -> "2"
      [] algo3D = "Frontal"          -> "4"
      [] algo3D = "Frontal Delaunay" -> "5"
      [] algo3D = "Frontal Hex"      -> "6"
      [] algo3D = "MMG3D"            -> "7"
      [] algo3D = "R-tree"           -> "9"
      [] OTHER                       -> "1"

\* the object after __init__: the attributes the later methods set do not exist yet
init_self(m) ==
    [ clmax              |-> init_clmax(m),
      clmin              |-> m.CharacteristicLengthMin,
      geotol             |-> init_geotol(m),
      order              |-> init_order(m),
      dimension          |-> m.ElementDimension,
      algorithm2D        |-> init_algorithm2D(m),
      algorithm3D        |-> init_algorithm3D(m),
      temp_file_geometry |-> <<>>,
      temp_file_mesh     |-> <<>>,
      temp_file_geo      |-> <<>>,
      mesh_name          |-> <<>>,
      gmsh_bin           |-> "",
      group_elements     |-> <<>>,
      ele_length_map     |-> <<>>,
      ele_node_map       |-> <<>>,
      bl_setting_list    |-> <<>>,
      bl_boundary_list   |-> <<>>,
      error              |-> FALSE,
      has                |-> {} ]

\* Gmsh has not been called
NoProc == [called |-> FALSE, spawned |-> FALSE, status |-> 0, stderr |-> "", wrote |-> FALSE]

\* no call of create_mesh / export_mesh is in progress
NoRun ==
    [ caller            |-> "",
      output_format     |-> "",
      output_filestring |-> "",
      saved_format      |-> "",
      format_before     |-> "",
      mesh_before       |-> 0,
      wrote_geo         |-> FALSE,
      proc              |-> NoProc,
      error             |-> "",
      loaded            |-> FALSE,
      result            |-> "",
      raised            |-> "",
      value             |-> <<>> ]

\* reset with the container left as the last run filled it
reset_skipped(old) == old

\* lines 261-262, 321-322 and 419: each extractor first assigns an empty
\* container to the attribute, whatever it held
reset(old) == <<>>

(***************************************************************************)
(* Sequencing of the methods by the two callers, lines 122-167.              *)
(***************************************************************************)
\* the method that follows method m in the body of the caller
next_method(caller, m) ==
    CASE m = "get_dimension"           -> "get_tmp_file_paths"
      [] m = "get_tmp_file_paths"      -> "get_gmsh_command"
      [] m = "get_gmsh_command"        -> "get_group_data"
      [] m = "get_group_data"          -> "get_region_data"
      [] m = "get_region_data"         -> "get_boundary_layer_data"
      [] m = "get_boundary_layer_data" -> "write_part_file"
      [] m = "write_part_file"         -> "write_geo"
      [] m = "write_geo"               -> "run_gmsh_with_geo"
      [] m = "run_gmsh_with_geo"       ->
            IF caller = "export_mesh" THEN "export_after" ELSE "read_and_set_new_mesh"
      [] OTHER                         -> "idle"

\* handler_of without the finally clause of export_mesh
handler_of_no_finally(caller) == "idle"

\* where an exception raised in the body of the caller takes control:
\* export_mesh has a finally clause (line 147), create_mesh has no handler
handler_of(caller) ==
    IF caller = "export_mesh" THEN "export_finally" ELSE "idle"

\* the run record after exception exc left a method called by the caller
run_raised(r, exc) ==
    [r EXCEPT !.raised = exc,
              !.result = IF r.caller = "export_mesh" THEN @ ELSE "raised"]

\* method m returned normally
Return(m) ==
    /\ pc' = next_method(run.caller, m)
    /\ run' = run

\* method m raised exc
Raise(exc) ==
    /\ pc' = handler_of(run.caller)
    /\ run' = run_raised(run, exc)

\* the methods that call into the host (the shape, FemMeshTools, the file
\* system) before they change anything: lines 175, 430, 287, 340, 512, 515
HostCalls ==
    {"get_dimension", "get_group_data", "get_region_data",
     "get_boundary_layer_data", "write_part_file", "write_geo"}

\* the call into the host made by the current method raises; neither caller
\* catches it (export_mesh has only the finally clause)
host_call_raises ==
    /\ pc \in HostCalls \cap env.faults
    /\ Raise("HostError")
    /\ UNCHANGED <<mesh_obj, part_obj, analysis, env, self, geo, fs, console, runs>>

(***************************************************************************)
(* create_mesh, lines 151-156, and export_mesh, lines 122-127: entry.        *)
(***************************************************************************)
new_run(caller, output_format, output_filestring) ==
    [NoRun EXCEPT !.caller = caller,
                  !.output_format = output_format,
                  !.output_filestring = output_filestring,
                  !.format_before = mesh_obj.OutputFormat,
                  !.mesh_before = mesh_obj.FemMesh]

create_mesh ==
    /\ pc = "idle"
    /\ runs < MaxRuns
    /\ runs' = runs + 1
    /\ run' = new_run("create_mesh", "", "")
    /\ console' = <<>>
    /\ pc' = "get_dimension"
    /\ UNCHANGED <<mesh_obj, part_obj, analysis, env, self, geo, fs>>

\* lines 124-127: the current OutputFormat is saved and overwritten
export_mesh ==
    /\ pc = "idle"
    /\ runs < MaxRuns
    /\ \E args \in env.exports :
          /\ run' = [new_run("export_mesh", args[1], args[2])
                        EXCEPT !.saved_format = mesh_obj.OutputFormat]
          /\ mesh_obj' = [mesh_obj EXCEPT !.OutputFormat = args[1]]
    /\ runs' = runs + 1
    /\ console' = <<>>
    /\ pc' = "get_dimension"
    /\ UNCHANGED <<part_obj, analysis, env, self, geo, fs>>

(***************************************************************************)
(* get_dimension, lines 169-204.                                             *)
(***************************************************************************)
\* dimension_of without the inspection of the shape type: dimension 3 for
\* every shape
dimension_of_highest(dimension, shty) ==
    IF dimension = "From Shape" THEN "3"
    ELSE CASE dimension = "3D" -> "3"
           [] dimension = "2D" -> "2"
           [] dimension = "1D" -> "1"
           [] OTHER            -> dimension

dimension_of(dimension, shty) ==
    IF dimension = "From Shape"
    THEN CASE shty \in {"Solid", "CompSolid"} -> "3"
           [] shty \in {"Face", "Shell"}      -> "2"
           [] shty \in {"Edge", "Wire"}       -> "1"
           [] shty = "Vertex"                 -> "0"
           [] shty = "Compound"               -> "3"
           [] OTHER                           -> "0"
    ELSE CASE dimension = "3D" -> "3"
           [] dimension = "2D" -> "2"
           [] dimension = "1D" -> "1"
           [] OTHER            -> dimension

dimension_diag(dimension, shty) ==
    IF dimension = "From Shape"
    THEN CASE shty \in {"Solid", "CompSolid", "Face", "Shell", "Edge", "Wire"} -> <<>>
           [] shty = "Vertex"   -> << <<"PrintError", "You can not mesh a Vertex.", "">> >>
           [] shty = "Compound" -> << <<"PrintLog", "Found a Compound", "">> >>
           [] OTHER -> << <<"PrintError", "Could not retrive Dimension from shape type.", "">> >>
    ELSE IF dimension \in {"3D", "2D", "1D"} THEN <<>>
    ELSE << <<"print", "Error in dimension", "">> >>

get_dimension ==
    /\ pc = "get_dimension"
    /\ self' = [self EXCEPT !.dimension = dimension_of(@, part_obj.ShapeType)]
    /\ console' = console \o dimension_diag(self.dimension, part_obj.ShapeType)
    /\ Return("get_dimension")
    /\ UNCHANGED <<mesh_obj, part_obj, analysis, env, geo, fs, runs>>

(***************************************************************************)
(* get_tmp_file_paths, lines 206-224.                                        *)
(***************************************************************************)
get_tmp_file_paths ==
    /\ pc = "get_tmp_file_paths"
    /\ IF dict_has(output_format_suffix, mesh_obj.OutputFormat)
       THEN /\ self' = [self EXCEPT
                  !.temp_file_geometry = <<part_obj.Name, "_Geometry.brep">>,
                  !.mesh_name = <<part_obj.Name, "_Mesh_TmpGmsh">>,
                  !.temp_file_mesh = <<part_obj.Name, "_Mesh_TmpGmsh",
                        dict_get(output_format_suffix, mesh_obj.OutputFormat)>>,
                  !.temp_file_geo = <<"shape2mesh.geo">>,
                  !.has = @ \cup {"temp_file_geometry", "mesh_name",
                                  "temp_file_mesh", "temp_file_geo"}]
            /\ Return("get_tmp_file_paths")
       ELSE \* line 219: KeyError, after lines 215 and 218 were executed
            /\ self' = [self EXCEPT
                  !.temp_file_geometry = <<part_obj.Name, "_Geometry.brep">>,
                  !.mesh_name = <<part_obj.Name, "_Mesh_TmpGmsh">>,
                  !.has = @ \cup {"temp_file_geometry", "mesh_name"}]
            /\ Raise("KeyError")
    /\ UNCHANGED <<mesh_obj, part_obj, analysis, env, geo, fs, console, runs>>

(***************************************************************************)
(* get_gmsh_command, lines 226-257.                                          *)
(***************************************************************************)
get_gmsh_command ==
    /\ pc = "get_gmsh_command"
    /\ \E status \in env.which :   \* exit status of `which gmsh` (line 235)
        IF env.UseStandardGmshLocation
        THEN CASE env.system = "Windows" ->
                    /\ self' = [self EXCEPT !.gmsh_bin = "bin/gmsh.exe",
                                            !.has = @ \cup {"gmsh_bin"}]
                    /\ console' = console
                    /\ Return("get_gmsh_command")
               [] env.system = "Linux" /\ status = 0 ->
                    /\ self' = [self EXCEPT !.gmsh_bin = "/usr/bin/gmsh",
                                            !.has = @ \cup {"gmsh_bin"}]
                    /\ console' = console
                    /\ Return("get_gmsh_command")
               [] env.system = "Linux" /\ status # 0 ->
                    /\ self' = [self EXCEPT !.gmsh_bin = "", !.has = @ \cup {"gmsh_bin"}]
                    /\ console' = Append(console, <<"PrintError", "GMSH binary gmsh not found", "">>)
                    /\ Raise("Exception")
               [] OTHER ->
                    /\ self' = [self EXCEPT !.gmsh_bin = "", !.has = @ \cup {"gmsh_bin"}]
                    /\ console' = Append(console, <<"PrintError", "No standard location implemented", "">>)
                    /\ Raise("Exception")
        ELSE /\ self' = [self EXCEPT
                    !.gmsh_bin = IF env.gmshBinaryPath # "" THEN env.gmshBinaryPath
                                 ELSE IF env.system = "Windows" THEN "bin/gmsh.exe"
                                 ELSE "gmsh",
                    !.has = @ \cup {"gmsh_bin"}]
             /\ console' = console
             /\ Return("get_gmsh_command")
    /\ UNCHANGED <<mesh_obj, part_obj, analysis, env, geo, fs, runs>>

(***************************************************************************)
(* get_group_data, lines 418-447.                                            *)
(***************************************************************************)
\* FemMeshTools.get_mesh_group_elements (called at line 430): the dict
\* {group name: element names} of one mesh group, empty without references
get_mesh_group_elements(mg) ==
    IF mg.elems = <<>> THEN <<>> ELSE << <<mg.Name, mg.elems>> >>

\* FemMeshTools.get_analysis_group_elements (called at line 439)
get_analysis_group_elements(a) == a.groups

\* lines 431-435 and 440-444: st = [map, console], new_group_elements from index i
RECURSIVE merge_group_elements(_, _, _)
merge_group_elements(st, new_group_elements, i) ==
    IF i > Len(new_group_elements) THEN st
    ELSE LET ge == new_group_elements[i][1] IN
         merge_group_elements(
            IF ~dict_has(st.map, ge)
            THEN [st EXCEPT !.map = Append(@, new_group_elements[i])]
            ELSE [st EXCEPT !.console =
                     Append(@, <<"PrintError", "A group with this name exists already.", ge>>)],
            new_group_elements, i + 1)

\* lines 429-435: the mesh groups from index k
RECURSIVE mesh_group_list(_, _, _)
mesh_group_list(st, MeshGroupList, k) ==
    IF k > Len(MeshGroupList) THEN st
    ELSE mesh_group_list(
            merge_group_elements(st, get_mesh_group_elements(MeshGroupList[k]), 1),
            MeshGroupList, k + 1)

group_data(m, a) ==
    LET st0 == [map |-> reset(self.group_elements), console |-> <<>>]
        st1 == mesh_group_list(st0, m.MeshGroupList, 1)
    IN  IF a.present
        THEN merge_group_elements(st1, get_analysis_group_elements(a), 1)
        ELSE st1

get_group_data ==
    /\ pc = "get_group_data"
    /\ LET st == group_data(mesh_obj, analysis) IN
          /\ self' = [self EXCEPT !.group_elements = st.map,
                                  !.has = @ \cup {"group_elements"}]
          /\ console' = console \o st.console
    /\ Return("get_group_data")
    /\ UNCHANGED <<mesh_obj, part_obj, analysis, env, geo, fs, runs>>

(***************************************************************************)
(* get_region_data, lines 259-315.                                           *)
(***************************************************************************)
\* lines 286-300 and 339-353: the element name the extractor goes on with.
\* A reference authored against another shape is looked up in the shape to
\* mesh (found[i] is what FemMeshTools.find_element_in_shape returns, "" for
\* None); when nothing is found the name is left as it was.
located_element(sub, i) ==
    IF ~sub.same /\ sub.found[i] # "" THEN sub.found[i] ELSE sub.elems[i]

\* lines 297-300 and 350-353: the look-up was made and found nothing
not_located(sub, i) == ~sub.same /\ sub.found[i] = ""

\* bind_length without the test of line 302: the last region wins
bind_length_overwrite(map, elems, length) ==
    IF ~dict_has(map, elems) THEN Append(map, <<elems, length>>)
    ELSE [i \in 1..Len(map) |-> IF map[i][1] = elems THEN <<elems, length>> ELSE map[i]]

\* lines 302-305: bind the element to the length of the region unless it is bound
bind_length(map, elems, length) ==
    IF ~dict_has(map, elems) THEN Append(map, <<elems, length>>) ELSE map

\* lines 291-305: the elements of one reference from index i; st = [map, console]
RECURSIVE region_elems(_, _, _, _)
region_elems(st, mr_obj, sub, i) ==
    IF i > Len(sub.elems) THEN st
    ELSE LET elems == located_element(sub, i)
             c1 == IF not_located(sub, i)
                   THEN Append(st.console,
                            <<"PrintError", "could not be found in the Part to mesh. It will be ignored.",
                              mr_obj.Name, sub.elems[i]>>)
                   ELSE st.console
             c2 == IF dict_has(st.map, elems)
                   THEN Append(c1, <<"PrintError", "has been added to another mesh region.",
                                     mr_obj.Name, elems>>)
                   ELSE c1
         IN  region_elems(
                [map |-> bind_length(st.map, elems, mr_obj.CharacteristicLength),
                 console |-> c2],
                mr_obj, sub, i + 1)

\* lines 283-305: the references of one region from index j
RECURSIVE region_references(_, _, _)
region_references(st, mr_obj, j) ==
    IF j > Len(mr_obj.References) THEN st
    ELSE region_references(region_elems(st, mr_obj, mr_obj.References[j], 1),
                           mr_obj, j + 1)

\* lines 277-309: the regions from index k
RECURSIVE region_list(_, _, _)
region_list(st, MeshRegionList, k) ==
    IF k > Len(MeshRegionList) THEN st
    ELSE LET mr_obj == MeshRegionList[k] IN
         region_list(
            IF mr_obj.CharacteristicLength # 0
            THEN IF mr_obj.References # <<>>
                 THEN region_references(st, mr_obj, 1)
                 ELSE [st EXCEPT !.console =
                          Append(@, <<"PrintError", "the reference list is empty.",
                                      mr_obj.Name, "">>)]
            ELSE [st EXCEPT !.console =
                     Append(@, <<"PrintError", "the CharacteristicLength is 0.0 mm.",
                                 mr_obj.Name, "">>)],
            MeshRegionList, k + 1)

\* FemMeshTools.get_vertexes_by_element (called at line 312): the 0-based
\* vertex indexes of an element of the shape to mesh
get_vertexes_by_element(eleml) ==
    CASE eleml = "Face1"   -> <<0, 1, 2>>
      [] eleml = "Face2"   -> <<1, 2, 3>>
      [] eleml = "Edge1"   -> <<0, 1>>
      [] eleml = "Edge2"   -> <<1, 2>>
      [] eleml = "Vertex1" -> <<0>>
      [] OTHER             -> <<0, 1, 2, 3>>

\* lines 272-275: the warning for a boolean split compound
region_compound_diag(m, part) ==
    IF m.MeshRegionList # <<>> /\ part.ShapeType = "Compound" /\ part.ProxyType \in
            {"FeatureBooleanFragments", "FeatureSlice", "FeatureXOR"}
    THEN << <<"PrintError", "The mesh to shape is a boolean split tools Compound", "", "">> >>
    ELSE <<>>

region_data(m, part) ==
    region_list([map |-> reset(self.ele_length_map),
                 console |-> region_compound_diag(m, part)],
                m.MeshRegionList, 1)

get_region_data ==
    /\ pc = "get_region_data"
    /\ LET st == region_data(mesh_obj, part_obj) IN
          /\ self' = [self EXCEPT
                !.ele_length_map = st.map,
                !.ele_node_map = [i \in 1..Len(st.map) |->
                                    <<st.map[i][1], get_vertexes_by_element(st.map[i][1])>>],
                !.has = @ \cup {"ele_length_map", "ele_node_map"}]
          /\ console' = console \o st.console
    /\ Return("get_region_data")
    /\ UNCHANGED <<mesh_obj, part_obj, analysis, env, geo, fs, runs>>

(***************************************************************************)
(* get_boundary_layer_data, lines 317-385.                                   *)
(***************************************************************************)
RECURSIVE pow(_, _)
pow(r, i) == IF i = 0 THEN 1 ELSE r * pow(r, i - 1)

\* layer_sum with the exponents 1..NumberOfLayers instead of range(NumberOfLayers)
RECURSIVE layer_sum_from_one(_, _, _)
layer_sum_from_one(hwall_n, ratio, n) ==
    IF n <= 0 THEN 0
    ELSE layer_sum_from_one(hwall_n, ratio, n - 1) + hwall_n * pow(ratio, n)

\* line 364: sum([hwall_n * ratio**i for i in range(NumberOfLayers)])
RECURSIVE layer_sum(_, _, _)
layer_sum(hwall_n, ratio, n) ==
    IF n <= 0 THEN 0
    ELSE layer_sum(hwall_n, ratio, n - 1) + hwall_n * pow(ratio, n - 1)

\* hfar_of with the two limits included
hfar_of_inclusive(clmax, thickness) ==
    IF 10 * clmax >= 8 * thickness /\ 10 * clmax <= 16 * thickness
    THEN clmax
    ELSE thickness

\* lines 368-371: clmax > thickness * 0.8 and clmax < thickness * 1.6
hfar_of(clmax, thickness) ==
    IF 10 * clmax > 8 * thickness /\ 10 * clmax < 16 * thickness
    THEN clmax
    ELSE thickness

\* bl_unclaimed without the test of line 355
bl_unclaimed_untested(bl_boundary_list, elems) == TRUE

\* lines 355-358: is the element still free to be claimed by a boundary layer
bl_unclaimed(bl_boundary_list, elems) == ~list_has(bl_boundary_list, elems)

\* lines 344-360: the elements of one reference from index i;
\* st = [bl_boundary_list, belem_list, console]
RECURSIVE bl_elems(_, _, _, _)
bl_elems(st, mr_obj, sub, i) ==
    IF i > Len(sub.elems) THEN st
    ELSE LET elems == located_element(sub, i)
             c1 == IF not_located(sub, i)
                   THEN Append(st.console,
                            <<"PrintError", "could not be found in the Part to mesh. It will be ignored.",
                              mr_obj.Name, sub.elems[i]>>)
                   ELSE st.console
         IN  bl_elems(
                IF bl_unclaimed(st.bl_boundary_list, elems)
                THEN [bl_boundary_list |-> Append(st.bl_boundary_list, elems),
                      belem_list |-> Append(st.belem_list, elems),
                      console |-> c1]
                ELSE [st EXCEPT !.console =
                         Append(c1, <<"PrintError", "has been added to another mesh  boudary layer.",
                                      mr_obj.Name, elems>>)],
                mr_obj, sub, i + 1)

\* lines 336-360: the references of one boundary layer object from index j
RECURSIVE bl_references(_, _, _)
bl_references(st, mr_obj, j) ==
    IF j > Len(mr_obj.References) THEN st
    ELSE bl_references(bl_elems(st, mr_obj, mr_obj.References[j], 1), mr_obj, j + 1)

\* lines 361-379: the setting dict of one boundary layer object
bl_setting(mr_obj, belem_list, clmax, dimension) ==
    LET hwall_n == mr_obj.MinimumThickness
        ratio == mr_obj.GrowthRate
        thickness == layer_sum(hwall_n, ratio, mr_obj.NumberOfLayers)
        setting == << <<"hwall_n", hwall_n>>, <<"ratio", ratio>>,
                      <<"thickness", thickness>>, <<"hwall_t", thickness>>,
                      <<"hfar", hfar_of(clmax, thickness)>> >>
    IN  IF dimension = "2" THEN Append(setting, <<"EdgesList", belem_list>>)
        ELSE IF dimension = "3" THEN Append(setting, <<"FacesList", belem_list>>)
        ELSE setting

\* lines 332-384: the boundary layer objects from index k;
\* st = [bl_setting_list, bl_boundary_list, console]
RECURSIVE bl_list(_, _, _, _, _)
bl_list(st, MeshBoundaryLayerList, clmax, dimension, k) ==
    IF k > Len(MeshBoundaryLayerList) THEN st
    ELSE LET mr_obj == MeshBoundaryLayerList[k] IN
         bl_list(
            IF mr_obj.MinimumThickness > 0
            THEN IF mr_obj.References # <<>>
                 THEN LET r == bl_references(
                                  [bl_boundary_list |-> st.bl_boundary_list,
                                   belem_list |-> <<>>,
                                   console |-> st.console], mr_obj, 1)
                      IN  [bl_setting_list |->
                               Append(st.bl_setting_list,
                                      bl_setting(mr_obj, r.belem_list, clmax, dimension)),
                           bl_boundary_list |-> r.bl_boundary_list,
                           console |->
                               IF dimension \in {"2", "3"} THEN r.console
                               ELSE Append(r.console,
                                      <<"PrintError", "boundary layer is only  supported for 2D and 3D mesh",
                                        mr_obj.Name, "">>)]
                 ELSE [st EXCEPT !.console =
                          Append(@, <<"PrintError", "the reference list is empty.",
                                      mr_obj.Name, "">>)]
            ELSE [st EXCEPT !.console =
                     Append(@, <<"PrintError", "the min thickness is 0.0 mm.",
                                 mr_obj.Name, "">>)],
            MeshBoundaryLayerList, clmax, dimension, k + 1)

\* lines 328-331: the warning for a compound
bl_compound_diag(m, part) ==
    IF m.MeshBoundaryLayerList # <<>> /\ part.ShapeType = "Compound"
    THEN << <<"PrintError", "GMSH could return unexpected meshes for a boolean split tools Compound", "", "">> >>
    ELSE <<>>

boundary_layer_data(m, part, clmax, dimension) ==
    bl_list([bl_setting_list |-> reset(self.bl_setting_list),
             bl_boundary_list |-> reset(self.bl_boundary_list),
             console |-> bl_compound_diag(m, part)],
            m.MeshBoundaryLayerList, clmax, dimension, 1)

get_boundary_layer_data ==
    /\ pc = "get_boundary_layer_data"
    /\ LET st == boundary_layer_data(mesh_obj, part_obj, self.clmax, self.dimension) IN
          /\ self' = [self EXCEPT
                !.bl_setting_list = st.bl_setting_list,
                !.bl_boundary_list = st.bl_boundary_list,
                !.has = @ \cup {"bl_setting_list", "bl_boundary_list"}]
          /\ console' = console \o st.console
    /\ Return("get_boundary_layer_data")
    /\ UNCHANGED <<mesh_obj, part_obj, analysis, env, geo, fs, runs>>

(***************************************************************************)
(* The script: a sequence of statements [stmt, arg, val].                    *)
(***************************************************************************)
Stmt(stmt, arg, val) == [stmt |-> stmt, arg |-> arg, val |-> val]

(***************************************************************************)
(* write_group, lines 449-509.                                               *)
(***************************************************************************)
\* lines 460-482: the kind of a group is the kind of its first element
group_kind(gdata) ==
    CASE startswith(Chars(gdata[1]), Chars("Solid"))  -> "Solid"
      [] startswith(Chars(gdata[1]), Chars("Face"))   -> "Face"
      [] startswith(Chars(gdata[1]), Chars("Edge"))   -> "Edge"
      [] startswith(Chars(gdata[1]), Chars("Vertex")) -> "Vertex"
      [] OTHER                                        -> ""

physical_type_of(kind) ==
    CASE kind = "Solid" -> "Volume"
      [] kind = "Face"  -> "Surface"
      [] kind = "Edge"  -> "Line"
      [] OTHER          -> ""

\* lines 462-463, 468-469, 476-477: ele_nr += ele.lstrip(kind) + ', ' from index i
RECURSIVE group_ele_nr(_, _, _)
group_ele_nr(gdata, kind, i) ==
    IF i > Len(gdata) THEN <<>>
    ELSE lstrip(Chars(gdata[i]), CharSet(kind)) \o Chars(", ")
            \o group_ele_nr(gdata, kind, i + 1)

\* lines 459-486: the text between the braces of the declaration of a group,
\* empty when nothing is declared for it
ele_nr_of(gdata) ==
    LET kind == group_kind(gdata) IN
    IF kind \in {"Solid", "Face", "Edge"}
    THEN rstrip(group_ele_nr(gdata, kind, 1), CharSet(", "))
    ELSE <<>>

\* counts_as_domain with every volume or surface group counted, whatever the
\* dimension
counts_as_domain_any(kind, dimension) == kind \in {"Solid", "Face"}

\* lines 464-465 and 470-471: does the group count as a domain
counts_as_domain(kind, dimension) ==
    \/ kind = "Solid" /\ dimension = "3"
    \/ kind = "Face" /\ dimension = "2"

\* lines 472-473 and 478-479: does the group count as a boundary
counts_as_boundary(kind, dimension) ==
    \/ kind = "Face" /\ dimension = "3"
    \/ kind = "Edge" /\ dimension = "2"

\* lines 456-486: the groups from index i; st = [geo, domains, boundaries]
RECURSIVE group_stmts(_, _, _, _)
group_stmts(st, group_elements, dimension, i) ==
    IF i > Len(group_elements) THEN st
    ELSE LET group == group_elements[i][1]
             gdata == group_elements[i][2]
             kind == group_kind(gdata)
             ele_nr == ele_nr_of(gdata)
         IN  group_stmts(
                [geo |-> IF ele_nr # <<>>
                         THEN Append(st.geo,
                                Stmt("Physical", <<physical_type_of(kind), group>>, ele_nr))
                         ELSE st.geo,
                 domains |-> st.domains + IF counts_as_domain(kind, dimension) THEN 1 ELSE 0,
                 boundaries |-> st.boundaries
                                 + IF counts_as_boundary(kind, dimension) THEN 1 ELSE 0],
                group_elements, dimension, i + 1)

\* lines 488-493: the default interior domain
interior_stmts(domains, dimension) ==
    IF domains = 0
    THEN IF dimension = "3" THEN <<Stmt("Physical", <<"Volume", "Interior">>, <<"1">>)>>
         ELSE IF dimension = "2" THEN <<Stmt("Physical", <<"Surface", "Interior">>, <<"1">>)>>
         ELSE <<>>
    ELSE <<>>

\* lines 500-509
save_groups_stmts(a, m) ==
    IF a.present /\ m.OutputFormat = "I-Deas universal"
    THEN <<Stmt("Mesh.SaveGroupsOfNodes", "", "1"), Stmt("Mesh.SaveAll", "", "1")>>
    ELSE <<>>

write_group(group_elements, dimension, a, m) ==
    LET st == group_stmts([geo |-> <<>>, domains |-> 0, boundaries |-> 0],
                          group_elements, dimension, 1)
    IN  st.geo \o interior_stmts(st.domains, dimension) \o save_groups_stmts(a, m)

(***************************************************************************)
(* write_boundary_layer, lines 387-416.                                      *)
(***************************************************************************)
\* line 401: ''.join(str(el[4:]) + ', ' for el in v), from index i
RECURSIVE bl_ele_nodes(_, _)
bl_ele_nodes(v, i) ==
    IF i > Len(v) THEN <<>>
    ELSE slice_from(Chars(v[i]), 4) \o Chars(", ") \o bl_ele_nodes(v, i + 1)

\* lines 396-406: one statement per key of the setting
bl_item_stmts(item, field_number) ==
    [j \in 1..Len(item) |->
        IF item[j][1] \in {"EdgesList", "FacesList"}
        THEN Stmt("Field.", <<field_number, item[j][1]>>,
                  rstrip(bl_ele_nodes(item[j][2], 1), CharSet(", ")))
        ELSE Stmt("Field.", <<field_number, item[j][1]>>, item[j][2])]

\* lines 393-410: the settings from index field_number
RECURSIVE write_boundary_layer_from(_, _)
write_boundary_layer_from(bl_setting_list, field_number) ==
    IF field_number > Len(bl_setting_list) THEN <<>>
    ELSE <<Stmt("Field", field_number, "BoundaryLayer")>>
            \o bl_item_stmts(bl_setting_list[field_number], field_number)
            \o <<Stmt("BoundaryLayer Field", "", field_number)>>
            \o write_boundary_layer_from(bl_setting_list, field_number + 1)

write_boundary_layer(bl_setting_list) == write_boundary_layer_from(bl_setting_list, 1)

(***************************************************************************)
(* write_part_file, lines 511-512.                                           *)
(***************************************************************************)
write_part_file ==
    /\ pc = "write_part_file"
    /\ Return("write_part_file")
    /\ UNCHANGED <<mesh_obj, part_obj, analysis, env, self, geo, fs, console, runs>>

(***************************************************************************)
(* write_geo, lines 514-613.                                                 *)
(***************************************************************************)
\* lines 522-526
scaling_stmts(scaling, UserSchema) ==
    IF scaling /\ UserSchema = 0 THEN <<Stmt("Mesh.ScalingFactor", "", "0.001")>> ELSE <<>>

\* lines 528-535: node indexes are re-indexed from 0-based to 1-based
length_stmts(ele_length_map, ele_node_map) ==
    [i \in 1..Len(ele_length_map) |->
        LET e == ele_length_map[i][1]
            nodes == dict_get(ele_node_map, e)
        IN  Stmt("Characteristic Length",
                 [n \in 1..Len(nodes) |-> nodes[n] + 1],
                 ele_length_map[i][2])]

\* lines 542-549
size_stmts(o) ==
    << Stmt("Mesh.CharacteristicLengthMax", "", o.clmax),
       Stmt("Mesh.CharacteristicLengthMin", "",
            IF Len(o.bl_setting_list) # 0 THEN 0 ELSE o.clmin) >>

\* lines 552-571
option_stmts(m) ==
    (IF m.RecombineAll THEN <<Stmt("Mesh.RecombineAll", "", "1")>> ELSE <<>>)
    \o << Stmt("Mesh.Optimize", "", IF m.OptimizeStd THEN "1" ELSE "0"),
          Stmt("Mesh.OptimizeNetgen", "", IF m.OptimizeNetgen THEN "1" ELSE "0"),
          Stmt("Mesh.HighOrderOptimize", "", IF m.HighOrderOptimize THEN "1" ELSE "0") >>

\* line 579: self.dimension == 3 compares the str self.dimension with the int 3;
\* in Python a str and an int are never equal
dimension_equals_int3(dimension) == FALSE

\* lines 579-582
algorithm_value(o) ==
    IF Len(o.bl_setting_list) # 0 /\ dimension_equals_int3(o.dimension)
    THEN "DelQuad"
    ELSE o.algorithm2D

\* lines 574-584
algorithm_stmts(o) ==
    << Stmt("Mesh.ElementOrder", "", o.order),
       Stmt("Mesh.Algorithm", "", algorithm_value(o)),
       Stmt("Mesh.Algorithm3D", "", o.algorithm3D) >>

\* lines 587-595
mesh_stmts(o, m) ==
    IF m.CoherenceMesh
    THEN << Stmt("Geometry.Tolerance", "", o.geotol),
            Stmt("Mesh", "", o.dimension),
            Stmt("Coherence Mesh", "", "") >>
    ELSE << Stmt("Mesh", "", o.dimension) >>

\* lines 597-599
output_stmts(o, m) ==
    << Stmt("Mesh.Format", "", dict_get(supported_mesh_output_formats, m.OutputFormat)),
       Stmt("Save", "", o.temp_file_mesh) >>

\* geo_text with the boundary layer fields written before the groups
geo_text_reordered(o, m, a, e, scaling) ==
    <<Stmt("Merge", "", o.temp_file_geometry)>>
    \o scaling_stmts(scaling, e.UserSchema)
    \o length_stmts(o.ele_length_map, o.ele_node_map)
    \o write_boundary_layer(o.bl_setting_list)
    \o write_group(o.group_elements, o.dimension, a, m)
    \o size_stmts(o)
    \o option_stmts(m)
    \o algorithm_stmts(o)
    \o mesh_stmts(o, m)
    \o output_stmts(o, m)

\* the statements write_geo writes, in the order it writes them
geo_text(o, m, a, e, scaling) ==
    <<Stmt("Merge", "", o.temp_file_geometry)>>
    \o scaling_stmts(scaling, e.UserSchema)
    \o length_stmts(o.ele_length_map, o.ele_node_map)
    \o write_group(o.group_elements, o.dimension, a, m)
    \o write_boundary_layer(o.bl_setting_list)
    \o size_stmts(o)
    \o option_stmts(m)
    \o algorithm_stmts(o)
    \o mesh_stmts(o, m)
    \o output_stmts(o, m)

\* create_mesh calls write_geo() (line 164), export_mesh write_geo(True) (line 136)
write_geo ==
    /\ pc = "write_geo"
    /\ geo' = geo_text(self, mesh_obj, analysis, env, run.caller = "export_mesh")
    /\ pc' = next_method(run.caller, "write_geo")
    /\ run' = [run EXCEPT !.wrote_geo = TRUE]
    /\ UNCHANGED <<mesh_obj, part_obj, analysis, env, self, fs, console, runs>>

(***************************************************************************)
(* run_gmsh_with_geo, lines 615-628.                                         *)
(***************************************************************************)
\* what can happen when Gmsh is started (line 620) and waited for (line 621):
\* whether the process could be spawned, its exit status, whether it wrote to
\* stderr, and whether it wrote the mesh output file
ProcOutcomes ==
    { [called |-> TRUE, spawned |-> FALSE, status |-> 0, stderr |-> "", wrote |-> FALSE],
      [called |-> TRUE, spawned |-> TRUE, status |-> 0, stderr |-> "", wrote |-> TRUE],
      [called |-> TRUE, spawned |-> TRUE, status |-> 0, stderr |-> "Warning", wrote |-> TRUE],
      [called |-> TRUE, spawned |-> TRUE, status |-> 1, stderr |-> "Error", wrote |-> FALSE],
      [called |-> TRUE, spawned |-> TRUE, status |-> 1, stderr |-> "Error", wrote |-> TRUE],
      [called |-> TRUE, spawned |-> TRUE, status |-> 1, stderr |-> "", wrote |-> FALSE] }

\* lines 624-627: the except clause first formats self.gmsh_command (line 625),
\* an attribute no method of the class sets
except_clause_raises(o) == "gmsh_command" \notin o.has

\* the value of self.error after the method
error_flag(o, p) ==
    IF ~p.spawned /\ ~except_clause_raises(o) THEN TRUE ELSE FALSE

run_gmsh_with_geo ==
    /\ pc = "run_gmsh_with_geo"
    /\ \E p \in env.procs :
        /\ self' = [self EXCEPT !.error = error_flag(self, p), !.has = @ \cup {"error"}]
        /\ fs' = IF p.wrote THEN [fs EXCEPT !.mesh = runs, !.path = self.temp_file_mesh]
                 ELSE fs
        /\ IF p.spawned
           THEN /\ pc' = next_method(run.caller, "run_gmsh_with_geo")
                /\ run' = [run EXCEPT !.proc = p, !.error = p.stderr]
           ELSE IF except_clause_raises(self)
           THEN /\ pc' = handler_of(run.caller)
                /\ run' = run_raised([run EXCEPT !.proc = p], "AttributeError")
           ELSE /\ pc' = next_method(run.caller, "run_gmsh_with_geo")
                /\ run' = [run EXCEPT !.proc = p, !.error = "Error executing"]
    /\ console' = IF ~self'.error THEN console
                  ELSE Append(console, <<"PrintError", "Error executing", "">>)
    /\ UNCHANGED <<mesh_obj, part_obj, analysis, env, geo, runs>>

(***************************************************************************)
(* read_and_set_new_mesh, lines 630-638, and the return of create_mesh.      *)
(***************************************************************************)
\* line 631: is the mesh output file read
reads_mesh(o) == ~o.error

\* is there a file at the path self.temp_file_mesh
mesh_file_exists(o) == fs.mesh # 0 /\ fs.path = o.temp_file_mesh

\* lines 637-638
del_temp_paths(has) == has \ {"temp_file_geometry", "temp_file_mesh"}

read_and_set_new_mesh ==
    /\ pc = "read_and_set_new_mesh"
    /\ IF reads_mesh(self) /\ ~mesh_file_exists(self)
       THEN \* Fem.read (line 632) fails on a file that does not exist
            /\ Raise("IOError")
            /\ UNCHANGED <<mesh_obj, self>>
       ELSE /\ mesh_obj' = IF reads_mesh(self)
                           THEN [mesh_obj EXCEPT !.FemMesh = fs.mesh]
                           ELSE mesh_obj
            /\ self' = [self EXCEPT !.has = del_temp_paths(@)]
            /\ pc' = "idle"
            /\ run' = [run EXCEPT !.loaded = reads_mesh(self),
                                  !.result = "returned",
                                  !.value = <<run.error>>]
    /\ UNCHANGED <<part_obj, analysis, env, geo, fs, console, runs>>

(***************************************************************************)
(* export_mesh after run_gmsh_with_geo, lines 138-149.                       *)
(***************************************************************************)
\* lines 138-146
export_result ==
    /\ pc = "export_after"
    /\ IF run.error # ""
       THEN /\ pc' = "export_finally"
            /\ run' = run
            /\ fs' = fs
       ELSE IF run.output_filestring = ""
       THEN /\ pc' = "export_finally"
            /\ run' = [run EXCEPT !.value = self.temp_file_mesh]
            /\ fs' = fs
       ELSE IF ~mesh_file_exists(self)
       THEN \* shutil.move (line 145) fails on a file that does not exist
            /\ pc' = "export_finally"
            /\ run' = [run_raised(run, "IOError") EXCEPT !.value = self.temp_file_mesh]
            /\ fs' = fs
       ELSE /\ pc' = "export_finally"
            /\ run' = [run EXCEPT !.value = <<run.output_filestring>>]
            /\ fs' = [fs EXCEPT !.mesh = 0, !.moved = fs.mesh]
    /\ UNCHANGED <<mesh_obj, part_obj, analysis, env, self, geo, console, runs>>

\* the OutputFormat the finally clause writes back (line 148)
restored_format(r) == r.saved_format

\* lines 147-149: the finally clause, then the return or the pending exception
export_finally ==
    /\ pc = "export_finally"
    /\ mesh_obj' = [mesh_obj EXCEPT !.OutputFormat = restored_format(run)]
    /\ run' = [run EXCEPT !.result = IF run.raised # "" THEN "raised" ELSE "returned",
                          !.value = IF run.raised # "" THEN <<>> ELSE @]
    /\ pc' = "idle"
    /\ UNCHANGED <<part_obj, analysis, env, self, geo, fs, console, runs>>

(***************************************************************************)
(* The next-state relation.                                                  *)
(***************************************************************************)
Next ==
    \/ create_mesh
    \/ export_mesh
    \/ get_dimension
    \/ get_tmp_file_paths
    \/ get_gmsh_command
    \/ get_group_data
    \/ get_region_data
    \/ get_boundary_layer_data
    \/ write_part_file
    \/ write_geo
    \/ run_gmsh_with_geo
    \/ read_and_set_new_mesh
    \/ export_result
    \/ export_finally
    \/ host_call_raises

(***************************************************************************)
(* Configurations the tool is constructed with.                              *)
(***************************************************************************)
\* further bounds of the model: the longest lists of regions, boundary layer
\* objects and mesh groups of a configuration
MaxRegions == 2
MaxLayers == 2
MaxGroups == 2

BaseMesh ==
    [ CharacteristicLengthMax |-> 0,
      CharacteristicLengthMin |-> 0,
      GeometryTolerance       |-> 0,
      ElementOrder            |-> "2nd",
      ElementDimension        |-> "From Shape",
      Algorithm2D             |-> "Automatic",
      Algorithm3D             |-> "Automatic",
      OutputFormat            |-> "I-Deas universal",
      MeshRegionList          |-> <<>>,
      MeshBoundaryLayerList   |-> <<>>,
      MeshGroupList           |-> <<>>,
      RecombineAll            |-> FALSE,
      OptimizeStd             |-> TRUE,
      OptimizeNetgen          |-> FALSE,
      HighOrderOptimize       |-> FALSE,
      CoherenceMesh           |-> TRUE,
      FemMesh                 |-> 0 ]

BasePart == [Name |-> "Box", ShapeType |-> "Solid", ProxyType |-> ""]

NoAnalysis == [present |-> FALSE, groups |-> <<>>]

\* Gmsh is found, runs and writes the mesh; one export variant
QuietEnv ==
    [ system                  |-> "Linux",
      UseStandardGmshLocation |-> FALSE,
      gmshBinaryPath          |-> "",
      UserSchema              |-> 0,
      which                   |-> {0},
      procs                   |-> {p \in ProcOutcomes : p.spawned /\ p.status = 0 /\ p.stderr = ""},
      exports                 |-> {<<"Abaqus INP", "">>},
      faults                  |-> {"write_part_file"} ]

\* everything that can go wrong with the tools outside does
RoughEnv ==
    [QuietEnv EXCEPT !.which = {0, 1},
                     !.procs = ProcOutcomes,
                     !.exports = {"Abaqus INP", "Bogus"} \X {"", "out"},
                     !.faults = HostCalls]

\* the name of the k-th object of a list of the document
ObjName(type, k) ==
    CASE type = "MeshRegion" ->
            <<"MeshRegion", "MeshRegion001", "MeshRegion002", "MeshRegion003">>[k]
      [] type = "MeshBoundaryLayer" ->
            <<"MeshBoundaryLayer", "MeshBoundaryLayer001", "MeshBoundaryLayer002",
              "MeshBoundaryLayer003">>[k]
      [] OTHER ->
            <<"MeshGroup", "MeshGroup001", "MeshGroup002", "MeshGroup003">>[k]

\* a reference to elements of the shape to mesh itself
Direct(elems) == [same |-> TRUE, elems |-> elems, found |-> <<>>]

\* a reference authored against another shape; found[i] is the element of the
\* shape to mesh that matches elems[i], "" when there is none
Foreign(elems, found) == [same |-> FALSE, elems |-> elems, found |-> found]

\* the reference lists of the regions and boundary layer objects
RefLists ==
    { << Direct(<<"Face1">>) >>,
      << Direct(<<"Face1", "Face2">>) >>,
      << Foreign(<<"Face1">>, <<"Face2">>) >>,
      << Foreign(<<"Face1">>, <<"">>) >>,
      << Direct(<<"Edge1">>), Foreign(<<"Face2", "Edge1">>, <<"Face1", "">>) >> }

\* a region: used ones get a length of their own (their position in the list),
\* so that the lengths tell the regions apart
RegionChoices ==
    {[used |-> TRUE, refs |-> r] : r \in RefLists \cup {<<>>}}
        \cup {[used |-> FALSE, refs |-> << Direct(<<"Face1">>) >>]}

RegionLists ==
    UNION { { [k \in 1..n |->
                 [Name |-> ObjName("MeshRegion", k),
                  CharacteristicLength |-> IF c[k].used THEN k ELSE 0,
                  References |-> c[k].refs]] : c \in [1..n -> RegionChoices] }
            : n \in 0..MaxRegions }

LayerLists ==
    UNION { { [k \in 1..n |->
                 [Name |-> ObjName("MeshBoundaryLayer", k),
                  MinimumThickness |-> IF c[k].used THEN k ELSE 0,
                  GrowthRate |-> 2,
                  NumberOfLayers |-> 2,
                  References |-> c[k].refs]] : c \in [1..n -> RegionChoices] }
            : n \in 0..MaxLayers }

\* the element lists of the mesh groups, sorted as the host returns them
GroupElems ==
    { <<"Solid1">>, <<"Face1">>, <<"Face1", "Face2">>, <<"Edge1">>, <<"Vertex1">>,
      <<"Face2", "Solid1">>, <<>> }

GroupLists ==
    UNION { { [k \in 1..n |-> [Name |-> ObjName("MeshGroup", k), elems |-> c[k]]]
                : c \in [1..n -> GroupElems] }
            : n \in 0..MaxGroups }

InitWith(m, part, a, e) ==
    /\ mesh_obj = m
    /\ part_obj = part
    /\ analysis = a
    /\ env = e
    /\ self = init_self(m)
    /\ geo = <<>>
    /\ fs = [mesh |-> 0, path |-> <<>>, moved |-> 0]
    /\ console = <<>>
    /\ pc = "idle"
    /\ run = NoRun
    /\ runs = 0

\* the shape types of the part; "Unknown" is none that get_dimension knows
ShapeTypes ==
    {"Solid", "CompSolid", "Face", "Shell", "Edge", "Wire", "Vertex", "Compound", "Unknown"}

\* the pipeline and its surroundings: shapes, tool discovery, Gmsh outcomes
Init ==
    \E shty \in ShapeTypes, dim \in {"From Shape", "2D"},
       std \in BOOLEAN :
        InitWith([BaseMesh EXCEPT !.ElementDimension = dim],
                 [BasePart EXCEPT !.ShapeType = shty],
                 NoAnalysis,
                 [RoughEnv EXCEPT !.UseStandardGmshLocation = std])

Spec == Init /\ [][Next]_vars

\* regions
InitRegions ==
    \E l \in RegionLists :
        InitWith([BaseMesh EXCEPT !.MeshRegionList = l], BasePart, NoAnalysis, QuietEnv)

SpecRegions == InitRegions /\ [][Next]_vars

\* boundary layers
InitLayers ==
    \E l \in LayerLists, dim \in {"2D", "3D"} :
        InitWith([BaseMesh EXCEPT !.MeshBoundaryLayerList = l,
                                  !.ElementDimension = dim,
                                  !.Algorithm2D = "Frontal"],
                 BasePart, NoAnalysis, QuietEnv)

SpecLayers == InitLayers /\ [][Next]_vars

\* groups
InitGroups ==
    \E l \in GroupLists, dim \in {"1D", "2D", "3D"}, withAnalysis \in BOOLEAN :
        InitWith([BaseMesh EXCEPT !.MeshGroupList = l, !.ElementDimension = dim],
                 BasePart,
                 IF withAnalysis
                 THEN [present |-> TRUE, groups |-> << <<"ConstraintFixed", <<"Face1">>>> >>]
                 ELSE NoAnalysis,
                 QuietEnv)

SpecGroups == InitGroups /\ [][Next]_vars

\* boundary layer thickness: the largest NumberOfLayers of a configuration
MaxNumberOfLayers == 2

\* the elements the boundary layer objects of this family refer to, by position
LayerElement(k) == <<"Face1", "Face2", "Edge1", "Edge2">>[k]

\* the objects of a list differ in MinimumThickness and share GrowthRate and
\* NumberOfLayers
ThicknessLists ==
    UNION { { [k \in 1..n |->
                 [Name |-> ObjName("MeshBoundaryLayer", k),
                  MinimumThickness |-> h[k],
                  GrowthRate |-> r,
                  NumberOfLayers |-> nl,
                  References |-> << Direct(<<LayerElement(k)>>) >>]]
                : h \in [1..n -> {5, 10}], r \in {1, 2}, nl \in 1..MaxNumberOfLayers }
            : n \in 1..MaxLayers }

\* the values of CharacteristicLengthMax: unset, and values below, at, between
\* and above 0.8 and 1.6 times the thicknesses of ThicknessLists
ClmaxChoices == {0, 4, 6, 8, 12, 16}

InitThickness ==
    \E l \in ThicknessLists, clmax \in ClmaxChoices :
        InitWith([BaseMesh EXCEPT !.MeshBoundaryLayerList = l,
                                  !.CharacteristicLengthMax = clmax],
                 BasePart, NoAnalysis, QuietEnv)

SpecThickness == InitThickness /\ [][Next]_vars

\* the script: configurations with and without regions, groups, boundary
\* layers, an analysis group and the optional toggles; the export variant is
\* the format for which the save-group options are written
InitScript ==
    \E withRegions, withGroups, withLayers, withAnalysis, toggles \in BOOLEAN,
       dim \in {"2D", "3D"} :
        InitWith([BaseMesh EXCEPT
                    !.ElementDimension = dim,
                    !.RecombineAll = toggles,
                    !.CoherenceMesh = toggles,
                    !.MeshRegionList =
                        IF withRegions
                        THEN << [Name |-> ObjName("MeshRegion", 1),
                                 CharacteristicLength |-> 1,
                                 References |-> << Direct(<<"Face1", "Edge1">>) >>] >>
                        ELSE <<>>,
                    !.MeshGroupList =
                        IF withGroups
                        THEN << [Name |-> ObjName("MeshGroup", 1), elems |-> <<"Solid1">>],
                                [Name |-> ObjName("MeshGroup", 2), elems |-> <<"Face1", "Face2">>] >>
                        ELSE <<>>,
                    !.MeshBoundaryLayerList =
                        IF withLayers
                        THEN << [Name |-> ObjName("MeshBoundaryLayer", 1),
                                 MinimumThickness |-> 1,
                                 GrowthRate |-> 2,
                                 NumberOfLayers |-> 2,
                                 References |-> << Direct(<<"Face2">>) >>] >>
                        ELSE <<>>],
                 BasePart,
                 IF withAnalysis
                 THEN [present |-> TRUE, groups |-> << <<"ConstraintFixed", <<"Face1">>>> >>]
                 ELSE NoAnalysis,
                 [QuietEnv EXCEPT !.exports = {<<"I-Deas universal", "">>}])

SpecScript == InitScript /\ [][Next]_vars

\* the enumerations of the mesh object (lines 70, 83, 101) and one name each
\* that is none of them
ElementOrders == {"1st", "2nd", "3rd"}

Algorithms2D == {"Automatic", "MeshAdapt", "Delaunay", "Frontal", "BAMG", "DelQuad", "Unknown"}

Algorithms3D ==
    {"Automatic", "Delaunay", "New Delaunay", "Frontal", "Frontal Delaunay",
     "Frontal Hex", "MMG3D", "R-tree", "Unknown"}

InitSettings ==
    \E order \in ElementOrders, algo2D \in Algorithms2D, algo3D \in Algorithms3D :
        InitWith([BaseMesh EXCEPT !.ElementOrder = order,
                                  !.Algorithm2D = algo2D,
                                  !.Algorithm3D = algo3D],
                 BasePart, NoAnalysis, QuietEnv)

SpecSettings == InitSettings /\ [][Next]_vars

\* the output formats: each of the nine names as the format of the mesh object
\* and as the format of an export
InitFormats ==
    \E fmt \in {supported_mesh_output_formats[i][1] :
                    i \in 1..Len(supported_mesh_output_formats)} :
        InitWith([BaseMesh EXCEPT !.OutputFormat = fmt],
                 BasePart, NoAnalysis,
                 [QuietEnv EXCEPT !.exports =
                     {<<output_format_suffix[i][1], "">> : i \in 1..Len(output_format_suffix)}])

SpecFormats == InitFormats /\ [][Next]_vars

\* the dimension: every shape type with every setting of ElementDimension
InitDimension ==
    \E shty \in ShapeTypes, dim \in {"From Shape", "1D", "2D", "3D"} :
        InitWith([BaseMesh EXCEPT !.ElementDimension = dim],
                 [BasePart EXCEPT !.ShapeType = shty],
                 NoAnalysis, QuietEnv)

SpecDimension == InitDimension /\ [][Next]_vars

\* the life cycle of the derived state: the host edits the lists of the mesh
\* object between two runs of the same tool object
ListConfigs ==
    { [regions |-> <<>>, layers |-> <<>>, groups |-> <<>>],
      [regions |-> << [Name |-> ObjName("MeshRegion", 1),
                       CharacteristicLength |-> 1,
                       References |-> << Direct(<<"Face1">>) >>] >>,
       layers  |-> << [Name |-> ObjName("MeshBoundaryLayer", 1),
                       MinimumThickness |-> 1,
                       GrowthRate |-> 2,
                       NumberOfLayers |-> 2,
                       References |-> << Direct(<<"Face2">>) >>] >>,
       groups  |-> << [Name |-> ObjName("MeshGroup", 1), elems |-> <<"Solid1">>] >>],
      [regions |-> << [Name |-> ObjName("MeshRegion", 1),
                       CharacteristicLength |-> 2,
                       References |-> << Direct(<<"Face2">>) >>] >>,
       layers  |-> << [Name |-> ObjName("MeshBoundaryLayer", 1),
                       MinimumThickness |-> 1,
                       GrowthRate |-> 2,
                       NumberOfLayers |-> 2,
                       References |-> << Direct(<<"Face1">>) >>] >>,
       groups  |-> << [Name |-> ObjName("MeshGroup", 1), elems |-> <<"Face1">>] >>],
      [regions |-> << [Name |-> ObjName("MeshRegion", 1),
                       CharacteristicLength |-> 1,
                       References |-> << Direct(<<"Face1", "Face2">>) >>] >>,
       layers  |-> <<>>,
       groups  |-> << [Name |-> ObjName("MeshGroup", 1), elems |-> <<"Face1">>],
                      [Name |-> ObjName("MeshGroup", 2), elems |-> <<"Solid1">>] >>] }

\* the mesh object with the lists of a configuration
WithLists(m, cfg) ==
    [m EXCEPT !.MeshRegionList = cfg.regions,
              !.MeshBoundaryLayerList = cfg.layers,
              !.MeshGroupList = cfg.groups]

\* between two runs the host replaces the lists of the mesh object, which the
\* tool object refers to (line 45) and reads anew in each extractor
\* (lines 263, 324, 425)
host_edits_lists ==
    /\ pc = "idle"
    /\ runs >= 1
    /\ \E cfg \in ListConfigs :
          /\ WithLists(mesh_obj, cfg) # mesh_obj
          /\ mesh_obj' = WithLists(mesh_obj, cfg)
    /\ UNCHANGED <<part_obj, analysis, env, self, geo, fs, console, pc, run, runs>>

NextEdited ==
    \/ Next
    \/ host_edits_lists

InitLifecycle ==
    \E cfg \in ListConfigs :
        InitWith(WithLists([BaseMesh EXCEPT !.ElementDimension = "3D"], cfg),
                 BasePart, NoAnalysis, QuietEnv)

SpecLifecycle == InitLifecycle /\ [][NextEdited]_vars

(***************************************************************************)
(* Properties.                                                               *)
(***************************************************************************)
\* the current call of create_mesh / export_mesh has ended
RunEnded == pc = "idle" /\ run.caller # ""

\* Gmsh could not be started, or ended with a non-zero exit status
ExecutionFailed == run.proc.called /\ (~run.proc.spawned \/ run.proc.status # 0)

\* C1: in a create_mesh run in which Gmsh fails to start or ends with a
\* non-zero exit status, the run is flagged as failed (self.error), no mesh is
\* loaded and the mesh object keeps the mesh it had before the run.
C1_ExecutionErrorLoadsNoMesh ==
    (RunEnded /\ run.caller = "create_mesh" /\ ExecutionFailed)
        => /\ self.error
           /\ ~run.loaded
           /\ mesh_obj.FemMesh = run.mesh_before

\* C3: with dimensionality 'From Shape' and a Vertex or an unrecognized shape
\* type the run stops at once: no script is written and Gmsh is never run.
C3_NoDimensionIsFatal ==
    (/\ run.caller # ""
     /\ mesh_obj.ElementDimension = "From Shape"
     /\ part_obj.ShapeType \notin {"Solid", "CompSolid", "Face", "Shell",
                                   "Edge", "Wire", "Compound"})
        => ~run.wrote_geo /\ ~run.proc.called

\* C8: when Gmsh cannot be spawned run_gmsh_with_geo does not raise: it
\* returns with self.error set and a diagnostic text as its return value.
C8_SpawnFailureDoesNotRaise ==
    (run.proc.called /\ ~run.proc.spawned)
        => /\ run.raised = ""
           /\ self.error
           /\ run.error # ""

\* C10: export_mesh leaves mesh_obj.OutputFormat as it was before the call on
\* every exit path: return with a file, return after a Gmsh error, exception.
C10_OutputFormatRestored ==
    (RunEnded /\ run.caller = "export_mesh")
        => mesh_obj.OutputFormat = run.format_before

\* C10, witness: an export to another format ended with an exception
C10_Witness ==
    /\ RunEnded
    /\ run.caller = "export_mesh"
    /\ run.result = "raised"
    /\ run.proc.called
    /\ run.output_format # run.format_before
    /\ mesh_obj.OutputFormat = run.format_before

(***************************************************************************)
(* Properties of the reference extraction.                                   *)
(***************************************************************************)
\* the positions <<j, i>> of the element references of a region or boundary
\* layer object: element i of its reference j
RefPositions(mr_obj) ==
    UNION { { <<j, i>> : i \in 1..Len(mr_obj.References[j].elems) }
            : j \in 1..Len(mr_obj.References) }

\* the reference at position p names an element of another shape for which
\* the shape to mesh has no matching element
Unlocated(mr_obj, p) ==
    LET sub == mr_obj.References[p[1]] IN ~sub.same /\ sub.found[p[2]] = ""

\* the element of the shape to mesh that the reference at position p stands
\* for: the element itself, or its match when it was authored on another shape
Resolved(mr_obj, p) ==
    LET sub == mr_obj.References[p[1]] IN
    IF sub.same THEN sub.elems[p[2]] ELSE sub.found[p[2]]

\* the positions of the references that stand for an element of the shape to mesh
Located(mr_obj) == {p \in RefPositions(mr_obj) : ~Unlocated(mr_obj, p)}

\* the elements that the object claims
Claims(mr_obj) == {Resolved(mr_obj, p) : p \in Located(mr_obj)}

\* the names written in the references that could not be located
UnlocatedNames(mr_obj) ==
    {mr_obj.References[p[1]].elems[p[2]] :
        p \in {q \in RefPositions(mr_obj) : Unlocated(mr_obj, q)}}

\* the diagnostics of the current run with the given text
Diagnostics(text) == {i \in 1..Len(console) : console[i][2] = text}

\* the n-th smallest number of a set of numbers
Nth(S, n) == CHOOSE k \in S : Cardinality({j \in S : j < k}) = n - 1

Regions == mesh_obj.MeshRegionList

\* the regions that take part: those with a characteristic length
UsedRegions == {k \in 1..Len(Regions) : Regions[k].CharacteristicLength # 0}

\* the names written in unlocated references of the regions that take part
RegionUnlocatedNames == UNION {UnlocatedNames(Regions[k]) : k \in UsedRegions}

\* the regions that claim element e, and the claims made on the elements
\* that no unlocated reference names
RegionClaimants(e) == {k \in UsedRegions : e \in Claims(Regions[k])}

RegionClaimPositions ==
    UNION { { <<k, p>> : p \in {q \in Located(Regions[k]) :
                                  Resolved(Regions[k], q) \notin RegionUnlocatedNames} }
            : k \in UsedRegions }

Layers == mesh_obj.MeshBoundaryLayerList

\* the boundary layer objects that take part
UsedLayers ==
    {k \in 1..Len(Layers) : Layers[k].MinimumThickness > 0 /\ Layers[k].References # <<>>}

LayerUnlocatedNames == UNION {UnlocatedNames(Layers[k]) : k \in UsedLayers}

LayerClaimPositions ==
    UNION { { <<k, p>> : p \in {q \in Located(Layers[k]) :
                                  Resolved(Layers[k], q) \notin LayerUnlocatedNames} }
            : k \in UsedLayers }

\* the element list (EdgesList / FacesList) of a boundary layer setting
ElementList(setting) ==
    IF \E j \in 1..Len(setting) : setting[j][1] \in {"EdgesList", "FacesList"}
    THEN setting[CHOOSE j \in 1..Len(setting) :
                    setting[j][1] \in {"EdgesList", "FacesList"}][2]
    ELSE <<>>

\* C2: a reference authored on another shape that has no matching element in
\* the shape to mesh is dropped with a diagnostic: every element bound to a
\* region length, and every element of a boundary layer list, is claimed by a
\* reference that was located, and each unlocated reference is reported.
C2_UnlocatedReferenceDropped ==
    /\ "ele_length_map" \in self.has =>
          \A i \in 1..Len(self.ele_length_map) :
              RegionClaimants(self.ele_length_map[i][1]) # {}
    /\ "bl_boundary_list" \in self.has =>
          \A i \in 1..Len(self.bl_boundary_list) :
              \E k \in UsedLayers : self.bl_boundary_list[i] \in Claims(Layers[k])
    /\ pc = "write_part_file" =>
          Cardinality(Diagnostics("could not be found in the Part to mesh. It will be ignored."))
             = Cardinality(UNION {{<<"r", k, p>> : p \in RefPositions(Regions[k]) \ Located(Regions[k])}
                                     : k \in UsedRegions})
               + Cardinality(UNION {{<<"b", k, p>> : p \in RefPositions(Layers[k]) \ Located(Layers[k])}
                                     : k \in UsedLayers})

Statements(stmt) == {i \in 1..Len(geo) : geo[i].stmt = stmt}

\* the physical entity that is a domain of a mesh of the given dimension
DomainType(dimension) ==
    CASE dimension = "3" -> "Volume"
      [] dimension = "2" -> "Surface"
      [] dimension = "1" -> "Line"
      [] OTHER           -> "Point"

\* the declarations of the groups that declare a domain of the mesh
DomainDeclarations ==
    {i \in Statements("Physical") :
        geo[i].arg[2] # "Interior" /\ geo[i].arg[1] = DomainType(self.dimension)}

InteriorDeclarations == {i \in Statements("Physical") : geo[i].arg[2] = "Interior"}

\* the script has exactly one declaration of the domain "Interior", of entity 1
OneInterior ==
    /\ Cardinality(InteriorDeclarations) = 1
    /\ \A i \in InteriorDeclarations :
          geo[i].arg[1] = DomainType(self.dimension) /\ geo[i].val = <<"1">>

\* C6 as claimed: for every resolved dimensionality, the script has exactly
\* one "Interior" declaration of entity 1 when no group declares a domain of
\* that dimensionality, and none when a group does.
C6_InteriorFallbackAnyDimension ==
    run.wrote_geo =>
        IF DomainDeclarations = {} THEN OneInterior ELSE InteriorDeclarations = {}

\* C6, amended: for the resolved dimensionalities 2 and 3 the script has
\* exactly one "Interior" declaration of entity 1 (a Surface for 2, a Volume
\* for 3) when no group declares a domain of that dimensionality, and none
\* when a group does; for any other dimensionality it has none.
C6_InteriorFallback ==
    run.wrote_geo =>
        IF self.dimension \in {"2", "3"}
        THEN IF DomainDeclarations = {} THEN OneInterior ELSE InteriorDeclarations = {}
        ELSE InteriorDeclarations = {}

\* C6, witness: a 3D script whose only group declarations are not volumes
C6_Witness ==
    /\ run.wrote_geo
    /\ self.dimension = "3"
    /\ \E i \in Statements("Physical") : geo[i].arg[1] = "Surface"
    /\ DomainDeclarations = {}
    /\ OneInterior

\* C7: with at least one boundary layer setting and the resolved dimension 3
\* the Mesh.Algorithm statement names the fixed algorithm (DelQuad, code 8),
\* otherwise the configured 2D algorithm code.
C7_BoundaryLayerAlgorithm ==
    run.wrote_geo =>
        /\ Statements("Mesh.Algorithm") # {}
        /\ \A i \in Statements("Mesh.Algorithm") :
              IF Len(self.bl_setting_list) # 0 /\ self.dimension = "3"
              THEN geo[i].val \in {"DelQuad", "8"}
              ELSE geo[i].val = self.algorithm2D

\* the geometric kind of an element of the shape
ElementKind(e) ==
    CASE e \in {"Solid1"}         -> "Solid"
      [] e \in {"Face1", "Face2"} -> "Face"
      [] e \in {"Edge1", "Edge2"} -> "Edge"
      [] OTHER                    -> "Vertex"

\* the groups whose elements are not all of one kind
MixedGroups ==
    {i \in 1..Len(self.group_elements) :
        \E a, b \in 1..Len(self.group_elements[i][2]) :
            ElementKind(self.group_elements[i][2][a]) # ElementKind(self.group_elements[i][2][b])}

\* C9: the elements of a group of mixed kinds are never merged into one
\* Physical declaration: the script has no declaration for such a group.
C9_MixedGroupNotMerged ==
    run.wrote_geo =>
        \A g \in MixedGroups :
            \A i \in Statements("Physical") : geo[i].arg[2] # self.group_elements[g][1]

(***************************************************************************)
(* Properties of the boundary layer settings.                                *)
(***************************************************************************)
\* the value of a key of a boundary layer setting
Setting(n, key) == dict_get(self.bl_setting_list[n], key)

\* the boundary layer object the n-th setting was made from
LayerOf(n) == Layers[Nth(UsedLayers, n)]

\* get_boundary_layer_data has made one setting per accepted object
SettingsMade ==
    /\ "bl_setting_list" \in self.has
    /\ Len(self.bl_setting_list) = Cardinality(UsedLayers)

\* C11: the thickness of every accepted boundary layer object with
\* hwall_n = h, ratio = r and n layers is h * (r^0 + ... + r^(n-1)), stated in
\* closed form: h * n when r = 1, and thickness * (r - 1) = h * (r^n - 1)
\* otherwise; hwall_t equals the thickness.
C11_LayerThickness ==
    "bl_setting_list" \in self.has =>
        /\ Len(self.bl_setting_list) = Cardinality(UsedLayers)
        /\ \A n \in 1..Len(self.bl_setting_list) :
              LET h == LayerOf(n).MinimumThickness
                  r == LayerOf(n).GrowthRate
                  nl == LayerOf(n).NumberOfLayers
              IN  /\ Setting(n, "hwall_n") = h
                  /\ Setting(n, "ratio") = r
                  /\ IF r = 1 THEN Setting(n, "thickness") = h * nl
                     ELSE Setting(n, "thickness") * (r - 1) = h * (pow(r, nl) - 1)
                  /\ Setting(n, "hwall_t") = Setting(n, "thickness")

\* C11, witness: settings made with ratio 1 and with ratio 2 of two layers
\* each: thickness 5 * 2 resp. 5 * (1 + 2)
C11_Witness ==
    /\ SettingsMade
    /\ Len(self.bl_setting_list) >= 1
    /\ LayerOf(1).MinimumThickness = 5
    /\ LayerOf(1).NumberOfLayers = 2
    /\ LayerOf(1).GrowthRate = 2
    /\ Setting(1, "thickness") = 15
    /\ Setting(1, "hwall_t") = 15

\* is clmax strictly between 0.8 and 1.6 times the thickness
StrictlyBetween(clmax, thickness) ==
    8 * thickness < 10 * clmax /\ 10 * clmax < 16 * thickness

\* C12: for every accepted boundary layer object hfar is the resolved clmax if
\* and only if 0.8 * thickness < clmax < 1.6 * thickness, and the thickness
\* otherwise, also at the two limits and with the default standing for a
\* CharacteristicLengthMax of 0.
C12_HfarRule ==
    "bl_setting_list" \in self.has =>
        \A n \in 1..Len(self.bl_setting_list) :
            /\ Setting(n, "hfar") = self.clmax
                  <=> StrictlyBetween(self.clmax, Setting(n, "thickness"))
            /\ ~StrictlyBetween(self.clmax, Setting(n, "thickness"))
                  => Setting(n, "hfar") = Setting(n, "thickness")
            /\ mesh_obj.CharacteristicLengthMax = 0
                  => (self.clmax = ClmaxDefault
                        /\ Setting(n, "hfar") = Setting(n, "thickness"))

\* C12, witness: clmax 8 is 1.6 times the thickness 5 of the first setting and
\* 0.8 times the thickness 10 of the second one; both take their thickness
C12_Witness ==
    /\ SettingsMade
    /\ Len(self.bl_setting_list) >= 2
    /\ self.clmax = 8
    /\ Setting(1, "thickness") = 5
    /\ Setting(2, "thickness") = 10
    /\ Setting(1, "hfar") = 5
    /\ Setting(2, "hfar") = 10

(***************************************************************************)
(* Properties of the order of the script.                                    *)
(***************************************************************************)
\* the class of a statement, numbered in the order the classes are to appear:
\* 1 geometry merge, 2 scaling factor, 3 characteristic lengths of regions,
\* 4 physical entities of the groups (with the save-group options written
\* along with them), 5 boundary layer fields and their activation, 6 global
\* size bounds, 7 toggles, 8 element order, 9 algorithms, 10 the mesh command
\* (with its tolerance and coherence statements), 11 output format and path
StatementClass(stmt) ==
    CASE stmt = "Merge"                 -> 1
      [] stmt = "Mesh.ScalingFactor"    -> 2
      [] stmt = "Characteristic Length" -> 3
      [] stmt \in {"Physical", "Mesh.SaveGroupsOfNodes", "Mesh.SaveAll"} -> 4
      [] stmt \in {"Field", "Field.", "BoundaryLayer Field"} -> 5
      [] stmt \in {"Mesh.CharacteristicLengthMax", "Mesh.CharacteristicLengthMin"} -> 6
      [] stmt \in {"Mesh.RecombineAll", "Mesh.Optimize", "Mesh.OptimizeNetgen",
                   "Mesh.HighOrderOptimize"} -> 7
      [] stmt = "Mesh.ElementOrder"     -> 8
      [] stmt \in {"Mesh.Algorithm", "Mesh.Algorithm3D"} -> 9
      [] stmt \in {"Geometry.Tolerance", "Mesh", "Coherence Mesh"} -> 10
      [] stmt \in {"Mesh.Format", "Save"} -> 11
      [] OTHER                          -> 0

\* the classes that are in every script
MandatoryClasses == {1, 6, 7, 8, 9, 10, 11}

\* the positions of the statements of a class
OfClass(c) == {i \in 1..Len(geo) : StatementClass(geo[i].stmt) = c}

\* C13: in every script the statements come class by class in the fixed
\* order: merge, scaling, region lengths, group declarations, boundary layer
\* fields with their activation, size bounds (max before min), toggles,
\* element order, algorithms, mesh command, output format code before the
\* save path; every statement belongs to a class.
C13_StatementOrder ==
    run.wrote_geo =>
        /\ \A i \in 1..Len(geo) : StatementClass(geo[i].stmt) # 0
        /\ \A i, j \in 1..Len(geo) :
              i < j => StatementClass(geo[i].stmt) <= StatementClass(geo[j].stmt)
        /\ \A c \in MandatoryClasses : OfClass(c) # {}
        /\ \A i \in Statements("Mesh.CharacteristicLengthMax"),
              j \in Statements("Mesh.CharacteristicLengthMin") : i < j
        /\ \A i \in Statements("Mesh.Format"), j \in Statements("Save") : i < j
        /\ \A i \in Statements("Field"), j \in Statements("BoundaryLayer Field") :
              geo[i].arg = geo[j].val => i < j

\* C13, witness: a script with statements of all eleven classes
C13_Witness ==
    /\ run.wrote_geo
    /\ \A c \in 1..11 : OfClass(c) # {}
    /\ Statements("Mesh.RecombineAll") # {}
    /\ Statements("Mesh.SaveAll") # {}

(***************************************************************************)
(* Properties of the enumerations.                                           *)
(***************************************************************************)
\* the codes Gmsh knows for Mesh.Algorithm and Mesh.Algorithm3D, and the code
\* of each name of the 3D algorithm (the tables in the comments of the script)
AlgorithmCodes2D == {"1", "2", "5", "6", "7", "8"}

AlgorithmCodes3D == {"1", "2", "4", "5", "6", "7", "9"}

Algorithm3DCode(name) ==
    CASE name = "Automatic"        -> "1"
      [] name = "Delaunay"         -> "1"
      [] name = "New Delaunay"     -> "2"
      [] name = "Frontal"          -> "4"
      [] name = "Frontal Delaunay" -> "5"
      [] name = "Frontal Hex"      -> "6"
      [] name = "MMG3D"            -> "7"
      [] name = "R-tree"           -> "9"
      [] OTHER                     -> "1"

\* the value of the only statement of the script with the given keyword
ValueOf(stmt) == geo[CHOOSE i \in Statements(stmt) : TRUE].val

\* C14: whatever the configured element order and algorithm names are, the
\* run goes on and the script has valid codes: Mesh.ElementOrder is 1 or 2,
\* Mesh.Algorithm and Mesh.Algorithm3D are codes of the algorithm tables, the
\* code of Automatic when the configured name is not recognized.
C14_EnumFallback ==
    run.wrote_geo =>
        /\ Cardinality(Statements("Mesh.ElementOrder")) = 1
        /\ Cardinality(Statements("Mesh.Algorithm")) = 1
        /\ Cardinality(Statements("Mesh.Algorithm3D")) = 1
        /\ ValueOf("Mesh.ElementOrder") \in {"1", "2"}
        /\ ValueOf("Mesh.Algorithm") \in AlgorithmCodes2D
        /\ ValueOf("Mesh.Algorithm3D") \in AlgorithmCodes3D
        /\ mesh_obj.Algorithm2D = "Unknown" => ValueOf("Mesh.Algorithm") = "2"
        /\ mesh_obj.Algorithm3D = "Unknown" => ValueOf("Mesh.Algorithm3D") = "1"

\* C19: the code of Mesh.Algorithm3D is that of the configured 3D algorithm
\* name, whatever the configured 2D algorithm is.
C19_Algorithm3DFromSelection ==
    run.wrote_geo =>
        /\ Cardinality(Statements("Mesh.Algorithm3D")) = 1
        /\ ValueOf("Mesh.Algorithm3D") = Algorithm3DCode(mesh_obj.Algorithm3D)

(***************************************************************************)
(* Properties of the output format.                                          *)
(***************************************************************************)
\* the output-format table: name, numeric code, file suffix
FormatTable ==
    { <<"Gmsh MSH", 1, ".msh">>, <<"I-Deas universal", 2, ".unv">>,
      <<"Automatic", 10, ".msh">>, <<"STL surface", 27, ".stl">>,
      <<"INRIA medit", 30, ".mesh">>, <<"CGNS", 32, ".cgns">>,
      <<"Salome mesh", 33, ".med">>, <<"Abaqus INP", 39, ".inp">>,
      <<"Ploy surface", 42, ".ply2">> }

\* the output format of the current run: the argument of export_mesh, or the
\* format of the mesh object for create_mesh
FormatOfRun ==
    IF run.caller = "export_mesh" THEN run.output_format ELSE run.format_before

\* C15: for each of the nine output formats the code of Mesh.Format and the
\* suffix of the temporary mesh output path, which the script saves to, are
\* those of the output-format table.
C15_FormatCodeAndSuffix ==
    run.wrote_geo =>
        \E row \in FormatTable :
            /\ row[1] = FormatOfRun
            /\ ValueOf("Mesh.Format") = row[2]
            /\ ValueOf("Save") = self.temp_file_mesh
            /\ self.temp_file_mesh[Len(self.temp_file_mesh)] = row[3]

(***************************************************************************)
(* Properties of the dimension.                                              *)
(***************************************************************************)
\* the shape types for which 'From Shape' has a dimension
MeshableShapes == {"Solid", "CompSolid", "Face", "Shell", "Edge", "Wire", "Compound"}

\* the dimension a configuration is to resolve to
ResolvedDimension ==
    CASE mesh_obj.ElementDimension = "3D" -> "3"
      [] mesh_obj.ElementDimension = "2D" -> "2"
      [] mesh_obj.ElementDimension = "1D" -> "1"
      [] part_obj.ShapeType \in {"Solid", "CompSolid", "Compound"} -> "3"
      [] part_obj.ShapeType \in {"Face", "Shell"} -> "2"
      [] OTHER -> "1"

\* get_dimension has returned, in this run or in an earlier one
DimensionResolved == run.caller # "" /\ (pc # "get_dimension" \/ runs > 1)

\* C16: 'From Shape' resolves to 3 for Solid, CompSolid and Compound, to 2 for
\* Face and Shell, to 1 for Edge and Wire; 1D, 2D and 3D resolve to 1, 2 and
\* 3; the script has one Mesh command, with the resolved dimension.
C16_DimensionMapping ==
    (mesh_obj.ElementDimension = "From Shape" => part_obj.ShapeType \in MeshableShapes)
        => /\ DimensionResolved => self.dimension = ResolvedDimension
           /\ run.wrote_geo =>
                 /\ Cardinality(Statements("Mesh")) = 1
                 /\ ValueOf("Mesh") = ResolvedDimension

\* C16, witness: From Shape with a Face gives Mesh 2
C16_Witness ==
    /\ run.wrote_geo
    /\ mesh_obj.ElementDimension = "From Shape"
    /\ part_obj.ShapeType = "Face"
    /\ self.dimension = "2"
    /\ ValueOf("Mesh") = "2"

(***************************************************************************)
(* Properties of the life cycle of the derived state.                        *)
(***************************************************************************)
\* C17: a create_mesh run in which Gmsh was started, or was tried to be
\* started, ends with the geometry path and the mesh output path discarded,
\* whether Gmsh succeeded, failed or could not be spawned.
C17_TempPathsDiscarded ==
    (RunEnded /\ run.caller = "create_mesh" /\ run.proc.called)
        => /\ "temp_file_geometry" \notin self.has
           /\ "temp_file_mesh" \notin self.has

\* the elements the regions and the boundary layer objects of the current
\* configuration claim, and the names of its groups
RegionElements == UNION {Claims(Regions[k]) : k \in UsedRegions}

LayerElements == UNION {Claims(Layers[k]) : k \in UsedLayers}

GroupNames ==
    {mesh_obj.MeshGroupList[k].Name :
        k \in {j \in 1..Len(mesh_obj.MeshGroupList) : mesh_obj.MeshGroupList[j].elems # <<>>}}

\* the three extractors of the current run have returned and the run goes on
Extracted == pc \in {"write_part_file", "write_geo", "run_gmsh_with_geo"}

\* the elements of a sequence
Range(seq) == {seq[i] : i \in 1..Len(seq)}

\* C18: in every run of a sequence of runs on one tool object the length and
\* node maps, the boundary layer settings with the list of claimed elements
\* and the group map hold what the current configuration yields and nothing
\* of an earlier run: no reference is rejected as a duplicate because an
\* earlier run claimed it, and the script written has the region lengths,
\* group declarations and boundary layer fields of the current configuration
\* only.
C18_DerivedStateRebuilt ==
    /\ Extracted =>
          /\ Range(dict_keys(self.ele_length_map)) = RegionElements
          /\ Range(dict_keys(self.ele_node_map)) = RegionElements
          /\ Len(self.ele_length_map) = Cardinality(RegionElements)
          /\ \A k \in UsedRegions : \A e \in Claims(Regions[k]) :
                dict_get(self.ele_length_map, e) = Regions[k].CharacteristicLength
          /\ Range(self.bl_boundary_list) = LayerElements
          /\ Len(self.bl_boundary_list) = Cardinality(LayerElements)
          /\ Len(self.bl_setting_list) = Cardinality(UsedLayers)
          /\ \A n \in 1..Len(self.bl_setting_list) :
                Range(ElementList(self.bl_setting_list[n])) = Claims(LayerOf(n))
          /\ Range(dict_keys(self.group_elements)) = GroupNames
          /\ \A k \in 1..Len(mesh_obj.MeshGroupList) :
                mesh_obj.MeshGroupList[k].Name \in GroupNames =>
                    dict_get(self.group_elements, mesh_obj.MeshGroupList[k].Name)
                        = mesh_obj.MeshGroupList[k].elems
          /\ Diagnostics("has been added to another mesh region.") = {}
          /\ Diagnostics("has been added to another mesh  boudary layer.") = {}
          /\ Diagnostics("A group with this name exists already.") = {}
    /\ pc = "run_gmsh_with_geo" =>
          /\ Cardinality(Statements("Characteristic Length")) = Cardinality(RegionElements)
          /\ \A i \in Statements("Characteristic Length") :
                \E k \in UsedRegions : geo[i].val = Regions[k].CharacteristicLength
          /\ \A i \in Statements("Physical") : geo[i].arg[2] \in GroupNames \cup {"Interior"}
          /\ \A g \in GroupNames : \E i \in Statements("Physical") : geo[i].arg[2] = g
          /\ Cardinality(Statements("Field")) = Cardinality(UsedLayers)

\* C18, witness: the second run is about to write its script; the script of
\* the first run is still there, with a length of 1 for a region and a volume
\* group, while the lists were edited and the derived state holds a length
\* of 2 for Face2, a boundary layer on Face1 and a surface group
C18_Witness ==
    /\ runs = 2
    /\ pc = "write_geo"
    /\ \E i \in Statements("Characteristic Length") : geo[i].val = 1
    /\ \E i \in Statements("Physical") : geo[i].arg = <<"Volume", "MeshGroup">>
    /\ self.ele_length_map = << <<"Face2", 2>> >>
    /\ self.bl_boundary_list = <<"Face1">>
    /\ self.group_elements = << <<"MeshGroup", <<"Face1">>>> >>

=============================================================================
